---- MODULE Spec2Model ----
(***************************************************************************)
(* Model of the in-memory mock backend of the WhatsApp agent contact       *)
(* centre dashboard: class MockApiService of                               *)
(* src/src/services/mockApiService.ts together with the permission table   *)
(* ROLE_PERMISSIONS.                                                       *)
(*                                                                         *)
(* Every facade method awaits simulateLatency() first and then runs its    *)
(* body without a further await, so one action of the model is the body of *)
(* one method, run when its latency delay has elapsed.  The arguments of a *)
(* call are fixed by the caller and do not depend on the service's state,  *)
(* so they are chosen when the body runs; sendMessage alone is modelled    *)
(* with the calls in flight, because the order in which calls were issued  *)
(* is observable there.  The reply scheduled by simulateCustomerResponse   *)
(* is a timer that fires on its own.                                       *)
(*                                                                         *)
(* The actions are the handlers as written.  The specifications below each *)
(* explore the calls of one area, and bound the number of calls made.      *)
(*                                                                         *)
(* Generated ids (prefix + Date.now() + random suffix) are modelled by     *)
(* fresh natural numbers; 0 is an id that names no stored entity.          *)
(***************************************************************************)
EXTENDS Integers, Sequences, FiniteSets, TLC

VARIABLES
    users,            \* this.users
    agents,           \* this.agents
    conversations,    \* this.conversations
    tasks,            \* this.tasks
    reports,          \* this.reports
    notifications,    \* this.notifications
    escalations,      \* this.escalations
    auditLogs,        \* this.auditLogs (newest first)
    syncSubscribers,  \* this.syncSubscribers, in insertion order
    currentContext,   \* this.currentContext
    inflight,         \* sendMessage calls waiting in simulateLatency
    issued,           \* number of sendMessage calls issued so far
    timers,           \* pending setTimeout callbacks of simulateCustomerResponse
    clock,            \* Date.now()
    last,             \* the outcome of the handler that ran last
    syncLog,          \* subscriber callbacks invoked by the handler that ran last
    calls,            \* number of calls the callers have made so far
    pending,          \* calls of the other methods waiting in simulateLatency
    held              \* the Conversation object a caller was handed and keeps

stores == <<users, agents, conversations, tasks, reports, notifications,
            escalations, auditLogs>>
vars == <<users, agents, conversations, tasks, reports, notifications,
          escalations, auditLogs, syncSubscribers, currentContext, inflight,
          issued, timers, clock, last, syncLog, calls, pending, held>>

----------------------------------------------------------------------------
(* Bounds of the model *)

MaxCalls == 2        \* calls made in a behaviour of Spec
MaxSendCalls == 2    \* calls made in a behaviour of SendSpec
MaxEscCalls == 3     \* calls made in a behaviour of EscSpec
MaxTransferCalls == 3  \* calls made in a behaviour of TransferSpec
MaxAuditCalls == 3   \* calls that change state in a behaviour of AuditSpec
MaxAssignCalls == 3  \* calls made in a behaviour of AssignSpec
MaxHeldCalls == 3    \* calls made in a behaviour of HeldSpec
MaxSessionCalls == 3 \* calls made in a behaviour of SessionSpec
MaxPageCalls == 4    \* calls that change state in a behaviour of PageSpec
MaxPage == 3         \* pages asked for
MaxLimit == 2        \* page sizes asked for

(* Program constants *)

AuditCap == 10000    \* logAudit keeps the newest 10000 entries
DefaultLimit == 20   \* getConversations: filters?.limit || 20

----------------------------------------------------------------------------
(* Domain values *)

Roles == {"admin", "branch_manager", "agent"}
Branches == {"b1", "b2"}
NoId == 0                       \* an id that no stored entity has
Undefined == "undefined"        \* an optional field that is not set
ConversationStatuses ==
    {"new", "assigned", "in_progress", "escalated", "resolved", "closed"}
Callbacks == {"cb1"}
Contents == {"hello"}
Passwords == {"demo123", "secret"}
UnknownEmail == "nobody@example.com"

NoContext == [userId |-> "null", userRole |-> "null", branchId |-> "null"]

ROLE_PERMISSIONS ==
    [admin |->
        << [resource |-> "*",
            actions |-> {"create", "read", "update", "delete", "assign",
                         "escalate", "approve"}] >>,
     branch_manager |->
        << [resource |-> "conversation",
            actions |-> {"create", "read", "update", "assign", "escalate"}],
           [resource |-> "task",
            actions |-> {"create", "read", "update", "assign"}],
           [resource |-> "report",
            actions |-> {"create", "read", "update", "approve"}],
           [resource |-> "agent", actions |-> {"read", "update"}],
           [resource |-> "escalation", actions |-> {"read", "update"}],
           [resource |-> "analytics", actions |-> {"read"}] >>,
     agent |->
        << [resource |-> "conversation", actions |-> {"read", "update"}],
           [resource |-> "task", actions |-> {"read", "update"}],
           [resource |-> "message", actions |-> {"create", "read"}],
           [resource |-> "escalation", actions |-> {"create", "read"}] >>]

----------------------------------------------------------------------------
(* Helpers on sequences and records *)

Range(s) == {s[i] : i \in DOMAIN s}

\* Array.prototype.findIndex on the id field; 0 stands for -1
findIndex(arr, id) ==
    IF \E i \in DOMAIN arr : arr[i].id = id
    THEN CHOOSE i \in DOMAIN arr :
            arr[i].id = id /\ \A j \in DOMAIN arr : arr[j].id = id => i <= j
    ELSE 0

\* { ...rec, ...updates }
spread(rec, updates) ==
    [k \in DOMAIN rec \cup DOMAIN updates |->
        IF k \in DOMAIN updates THEN updates[k] ELSE rec[k]]

\* the callbacks of n rounds of notifySyncChange
RECURSIVE rounds(_, _)
rounds(subs, n) == IF n = 0 THEN << >> ELSE subs \o rounds(subs, n - 1)

----------------------------------------------------------------------------
(* Context and permission checking *)

\* getContext throws when there is no context
hasContext == currentContext # NoContext

\* a check that knows no wildcard
hasPermissionExact(resource, action) ==
    LET permissions == ROLE_PERMISSIONS[currentContext.userRole]
    IN  \E i \in DOMAIN permissions :
            /\ permissions[i].resource = resource
            /\ action \in permissions[i].actions

hasPermission(resource, action) ==
    LET permissions == ROLE_PERMISSIONS[currentContext.userRole]
    IN  \E i \in DOMAIN permissions :
            /\ (permissions[i].resource = "*" \/ permissions[i].resource = resource)
            /\ action \in permissions[i].actions

\* requirePermission with the permission check left out
requirePermissionUnchecked(resource, action) ==
    IF ~hasContext THEN "No authenticated context" ELSE "pass"

\* The outcome of `this.requirePermission(resource, action)` at the head of
\* a method: hasPermission calls getContext, which throws without a context.
requirePermission(resource, action) ==
    IF ~hasContext THEN "No authenticated context"
    ELSE IF ~hasPermission(resource, action) THEN "Permission denied"
    ELSE "pass"

\* getContext with the null check left out
getContextUnchecked == "pass"

\* The outcome of `this.getContext()` at the head of a method
getContext == IF hasContext THEN "pass" ELSE "No authenticated context"

----------------------------------------------------------------------------
(* Audit log and notifications *)

\* the metadata of an audit entry: the agents of a transfer, and nothing
\* the model keeps for the other entries
NoMetadata == [fromAgentId |-> Undefined, toAgentId |-> Undefined]

AuditEvent(actionType, conversationId) ==
    [actionType |-> actionType, conversationId |-> conversationId,
     performedBy |-> currentContext.userId, performedAt |-> clock,
     metadata |-> NoMetadata]

\* a cap that keeps one entry too many
capAuditLogsLate(logs) ==
    IF Len(logs) > AuditCap + 1 THEN SubSeq(logs, 1, AuditCap) ELSE logs

\* if (this.auditLogs.length > 10000) this.auditLogs = this.auditLogs.slice(0, 10000)
capAuditLogs(logs) ==
    IF Len(logs) > AuditCap THEN SubSeq(logs, 1, AuditCap) ELSE logs

\* an audit entry that drops the metadata it was given
logAuditBare(actionType, conversationId, metadata) ==
    LET added == <<AuditEvent(actionType, conversationId)>> \o auditLogs
    IN  IF Len(added) > AuditCap THEN SubSeq(added, 1, AuditCap) ELSE added

\* this.auditLogs after logAudit(actionType, conversationId, metadata)
logAuditWith(actionType, conversationId, metadata) ==
    LET event == [AuditEvent(actionType, conversationId)
                     EXCEPT !.metadata = metadata]
    IN  capAuditLogs(<<event>> \o auditLogs)

\* this.auditLogs after logAudit(actionType, conversationId, ...)
logAudit(actionType, conversationId) ==
    logAuditWith(actionType, conversationId, NoMetadata)

\* logs.sort((a, b) => b.performedAt - a.performedAt): descending and
\* stable, so a list that is in descending order already is left as it is
RECURSIVE insertByPerformedAt(_, _)
insertByPerformedAt(e, sorted) ==
    IF sorted = << >> THEN <<e>>
    ELSE IF Head(sorted).performedAt <= e.performedAt
         THEN <<e>> \o sorted
         ELSE <<Head(sorted)>> \o insertByPerformedAt(e, Tail(sorted))

RECURSIVE sortByPerformedAt(_)
sortByPerformedAt(logs) ==
    IF \A i \in 1..(Len(logs) - 1) :
          logs[i].performedAt >= logs[i + 1].performedAt
    THEN logs
    ELSE insertByPerformedAt(Head(logs), sortByPerformedAt(Tail(logs)))

\* this.notifications after createNotificationInternal({userId, type, isRead: false})
createNotificationInternal(userId, type) ==
    <<[id |-> Len(notifications) + 1, userId |-> userId, type |-> type,
       isRead |-> FALSE]>> \o notifications

\* a lookup that takes the first branch manager of any branch
getBranchManagerIdAnyBranch(branchId) ==
    LET isManager(u) == u.role = "branch_manager"
        managers == SelectSeq(users, isManager)
    IN  IF managers # << >> THEN managers[1].id ELSE "admin-1"

getBranchManagerId(branchId) ==
    LET isManager(u) == u.role = "branch_manager" /\ u.branchId = branchId
        managers == SelectSeq(users, isManager)
    IN  IF managers # << >> THEN managers[1].id ELSE "admin-1"

----------------------------------------------------------------------------
(* What a handler hands back: an envelope {success, data | error}, or an
   exception that rejects the promise of the call. *)

\* the filters of a list call and the paging data of its result; NoMeta for
\* every other call
NoMeta ==
    [branchId |-> Undefined, agentId |-> Undefined, status |-> Undefined,
     page |-> 0, limit |-> 0, total |-> 0, totalPages |-> 0,
     hasMore |-> FALSE]

Response(op, outcome, code, conv, who, items) ==
    [op |-> op, outcome |-> outcome, code |-> code, conv |-> conv,
     who |-> who, items |-> items, arg |-> "", meta |-> NoMeta,
     logs |-> << >>]

Ok(op, conv, who) == Response(op, "ok", "", conv, who, << >>)
Error(op, code, conv, who) == Response(op, "error", code, conv, who, << >>)
Thrown(op, message, conv, who) == Response(op, "throw", message, conv, who, << >>)

\* the handler threw before it touched anything
Throw(op, message, conv, who) ==
    /\ last' = Thrown(op, message, conv, who)
    /\ syncLog' = << >>
    /\ UNCHANGED <<users, agents, conversations, tasks, reports, notifications,
                   escalations, auditLogs, syncSubscribers, currentContext,
                   inflight, issued, timers, clock>>

\* an error return that leaves an entry in the audit log
FailAudited(op, code, conv, who) ==
    /\ last' = Error(op, code, conv, who)
    /\ syncLog' = << >>
    /\ auditLogs' = logAudit(code, conv)
    /\ UNCHANGED <<users, agents, conversations, tasks, reports, notifications,
                   escalations, syncSubscribers, currentContext,
                   inflight, issued, timers, clock>>

\* the handler returned an error envelope before it touched anything
Fail(op, code, conv, who) ==
    /\ last' = Error(op, code, conv, who)
    /\ syncLog' = << >>
    /\ UNCHANGED <<users, agents, conversations, tasks, reports, notifications,
                   escalations, auditLogs, syncSubscribers, currentContext,
                   inflight, issued, timers, clock>>

\* the callbacks run by n calls of notifySyncChange
notifySyncChange(n) == syncLog' = rounds(syncSubscribers, n)

----------------------------------------------------------------------------
(* The state after construction.  The seed data (@/data/mockData) is not
   part of the sources at hand: the seed is a small data set with one user
   per role and branch, and the two seed conversations start in any of the
   states of SeedStates (conversation 1) and SeedStates2 (conversation 2). *)

SeedUsers ==
    << [id |-> "admin-1", email |-> "admin@example.com", role |-> "admin",
        branchId |-> Undefined],
       [id |-> "manager-1", email |-> "manager@example.com",
        role |-> "branch_manager", branchId |-> "b1"],
       [id |-> "agent-1", email |-> "agent1@example.com", role |-> "agent",
        branchId |-> "b1"],
       [id |-> "agent-2", email |-> "agent2@example.com", role |-> "agent",
        branchId |-> "b2"] >>

SeedAgents ==
    << [id |-> "agent-1", branchId |-> "b1", status |-> "online", maxChats |-> 1],
       [id |-> "agent-2", branchId |-> "b2", status |-> "offline", maxChats |-> 2] >>

AgentIds == {"agent-1", "agent-2"}
UnknownAgent == "agent-x"       \* an id that no agent has
Emails == {SeedUsers[i].email : i \in DOMAIN SeedUsers} \cup {UnknownEmail}

SeedStates ==
    { [status |-> "new", assignedAgentId |-> Undefined],
      [status |-> "assigned", assignedAgentId |-> "agent-1"],
      [status |-> "resolved", assignedAgentId |-> "agent-2"],
      [status |-> "closed", assignedAgentId |-> "agent-1"] }

SeedStates2 ==
    { [status |-> "new", assignedAgentId |-> Undefined] }

SeedConversation(id, branchId, st, time) ==
    [id |-> id, branchId |-> branchId, status |-> st.status,
     assignedAgentId |-> st.assignedAgentId, notes |-> "", messages |-> << >>,
     lastMessage |-> "", lastMessageTime |-> time, unreadCount |-> 0]

SeedTasks ==
    << [id |-> 1, branchId |-> "b1", assignedBy |-> "manager-1",
        assignedTo |-> "agent-1", status |-> "pending", completedAt |-> FALSE] >>

SeedReports ==
    << [id |-> 1, branchId |-> "b1", submittedBy |-> "manager-1",
        status |-> "draft", reviewedBy |-> Undefined] >>

SeedNotifications ==
    << [id |-> 1, userId |-> "agent-1", type |-> "task_assigned",
        isRead |-> FALSE] >>

\* no object has been handed to the caller
NoHeld ==
    [id |-> NoId,
     value |-> SeedConversation(NoId, Undefined,
                  [status |-> Undefined, assignedAgentId |-> Undefined], 0),
     live |-> FALSE, messagesLive |-> FALSE]

Init ==
    /\ users = SeedUsers
    /\ agents = SeedAgents
    /\ \E s1 \in SeedStates, s2 \in SeedStates2 :
          conversations = << SeedConversation(2, "b2", s2, 2),
                             SeedConversation(1, "b1", s1, 1) >>
    /\ tasks = SeedTasks
    /\ reports = SeedReports
    /\ notifications = SeedNotifications
    /\ escalations = << >>
    /\ auditLogs = << >>
    /\ syncSubscribers = << >>
    /\ currentContext = [userId |-> "admin-1", userRole |-> "admin",
                         branchId |-> Undefined]
    /\ inflight = {}
    /\ issued = 0
    /\ timers = {}
    /\ clock = 3
    /\ last = Ok("constructor", NoId, Undefined)
    /\ syncLog = << >>
    /\ calls = 0
    /\ pending = {}
    /\ held = NoHeld

----------------------------------------------------------------------------
(* Dashboard sync *)

subscribeToSync(callback) ==
    /\ syncSubscribers' =
          IF callback \in Range(syncSubscribers) THEN syncSubscribers
          ELSE Append(syncSubscribers, callback)
    /\ last' = Ok("subscribeToSync", NoId, callback)
    /\ syncLog' = << >>
    /\ UNCHANGED <<stores, currentContext, inflight, issued, timers, clock>>

\* the function subscribeToSync returned
unsubscribe(callback) ==
    /\ syncSubscribers' = SelectSeq(syncSubscribers, LAMBDA c : c # callback)
    /\ last' = Ok("unsubscribe", NoId, callback)
    /\ syncLog' = << >>
    /\ UNCHANGED <<stores, currentContext, inflight, issued, timers, clock>>

----------------------------------------------------------------------------
(* Authentication *)

\* this.users.find(u => u.email === email): the index, 0 when there is none
findUserByEmail(email) ==
    IF \E i \in DOMAIN users : users[i].email = email
    THEN CHOOSE i \in DOMAIN users :
            users[i].email = email /\ \A j \in DOMAIN users : users[j].email = email => i <= j
    ELSE 0

\* a login that also wants the demo password
invalidCredentialsByPassword(i, password) == i = 0 \/ password # "demo123"

\* if (!user): the password takes no part
invalidCredentials(i, password) == i = 0

login(email, password) ==
    LET i == findUserByEmail(email)
    IN  /\ IF invalidCredentials(i, password)
           THEN /\ last' = [Error("login", "INVALID_CREDENTIALS", NoId, email)
                               EXCEPT !.arg = password]
                /\ UNCHANGED currentContext
           ELSE /\ currentContext' = [userId |-> users[i].id,
                                      userRole |-> users[i].role,
                                      branchId |-> users[i].branchId]
                /\ last' = [Ok("login", NoId, email) EXCEPT !.arg = password]
        /\ syncLog' = << >>
        /\ UNCHANGED <<stores, syncSubscribers, inflight, issued, timers, clock>>

logout ==
    /\ currentContext' = NoContext
    /\ last' = Ok("logout", NoId, Undefined)
    /\ syncLog' = << >>
    /\ UNCHANGED <<stores, syncSubscribers, inflight, issued, timers, clock>>

getCurrentUser ==
    IF getContext # "pass" THEN Throw("getCurrentUser", getContext, NoId, Undefined)
    ELSE IF findIndex(users, currentContext.userId) = 0
    THEN Fail("getCurrentUser", "USER_NOT_FOUND", NoId, Undefined)
    ELSE /\ last' = Ok("getCurrentUser", NoId, currentContext.userId)
         /\ syncLog' = << >>
         /\ UNCHANGED <<stores, syncSubscribers, currentContext, inflight,
                        issued, timers, clock>>

----------------------------------------------------------------------------
(* Reads *)

ids(arr) == [i \in DOMAIN arr |-> arr[i].id]

\* a read returned `items`; nothing changed
Return(op, conv, who, items) ==
    /\ last' = Response(op, "ok", "", conv, who, items)
    /\ syncLog' = << >>
    /\ UNCHANGED <<stores, syncSubscribers, currentContext, inflight, issued,
                   timers, clock>>

getBranches ==
    IF getContext # "pass" THEN Throw("getBranches", getContext, NoId, Undefined)
    ELSE LET branches == IF currentContext.userRole = "branch_manager"
                         THEN SelectSeq(<<"b1", "b2">>,
                                        LAMBDA b : b = currentContext.branchId)
                         ELSE <<"b1", "b2">>
         IN  Return("getBranches", NoId, Undefined, branches)

getAgents(branchId, status) ==
    IF getContext # "pass" THEN Throw("getAgents", getContext, NoId, Undefined)
    ELSE LET scoped == IF currentContext.userRole = "branch_manager"
                       THEN SelectSeq(agents,
                                LAMBDA a : a.branchId = currentContext.branchId)
                       ELSE agents
             byBranch == IF branchId # Undefined
                         THEN SelectSeq(scoped, LAMBDA a : a.branchId = branchId)
                         ELSE scoped
             byStatus == IF status # Undefined
                         THEN SelectSeq(byBranch, LAMBDA a : a.status = status)
                         ELSE byBranch
         IN  Return("getAgents", NoId, Undefined, ids(byStatus))

getUsers ==
    IF requirePermission("user", "read") # "pass"
    THEN Throw("getUsers", requirePermission("user", "read"), NoId, Undefined)
    ELSE Return("getUsers", NoId, Undefined, ids(users))

getNotifications ==
    IF getContext # "pass"
    THEN Throw("getNotifications", getContext, NoId, Undefined)
    ELSE Return("getNotifications", NoId, Undefined,
                ids(SelectSeq(notifications,
                              LAMBDA n : n.userId = currentContext.userId)))

\* conversations.sort((a, b) => b.lastMessageTime - a.lastMessageTime):
\* descending, and stable for equal times
RECURSIVE insertByTime(_, _)
insertByTime(c, sorted) ==
    IF sorted = << >> THEN <<c>>
    ELSE IF Head(sorted).lastMessageTime <= c.lastMessageTime
         THEN <<c>> \o sorted
         ELSE <<Head(sorted)>> \o insertByTime(c, Tail(sorted))

RECURSIVE sortByLastMessageTime(_)
sortByLastMessageTime(arr) ==
    IF arr = << >> THEN << >>
    ELSE insertByTime(Head(arr), sortByLastMessageTime(Tail(arr)))

\* a slice that takes one element too many
sliceInclusive(arr, start, limit) ==
    SubSeq(arr, start + 1,
           IF start + limit + 1 < Len(arr) THEN start + limit + 1 ELSE Len(arr))

\* Math.ceil(total / limit)
ceil(total, limit) == (total + limit - 1) \div limit

\* arr.slice(start, start + limit), start counted from 0
slice(arr, start, limit) ==
    SubSeq(arr, start + 1,
           IF start + limit < Len(arr) THEN start + limit ELSE Len(arr))

\* a role scope that forgets the agent's filter
scopeOfRoleManagerOnly(arr) ==
    IF currentContext.userRole = "branch_manager"
    THEN SelectSeq(arr, LAMBDA c : c.branchId = currentContext.branchId)
    ELSE arr

\* the role scope of getConversations
scopeOfRole(arr) ==
    LET forManager == IF currentContext.userRole = "branch_manager"
                      THEN SelectSeq(arr,
                              LAMBDA c : c.branchId = currentContext.branchId)
                      ELSE arr
    IN  IF currentContext.userRole = "agent"
        THEN SelectSeq(forManager,
                LAMBDA c : c.assignedAgentId = currentContext.userId)
        ELSE forManager

\* the role scope, then the branchId / agentId / status filters
filterConversations(branchId, agentId, status) ==
    LET scoped == scopeOfRole(conversations)
        byBranch == IF branchId # Undefined
                    THEN SelectSeq(scoped, LAMBDA c : c.branchId = branchId)
                    ELSE scoped
        byAgent == IF agentId # Undefined
                   THEN SelectSeq(byBranch, LAMBDA c : c.assignedAgentId = agentId)
                   ELSE byBranch
    IN  IF status # Undefined
        THEN SelectSeq(byAgent, LAMBDA c : c.status = status)
        ELSE byAgent

getConversations(branchId, agentId, status, page, limit) ==
    IF requirePermission("conversation", "read") # "pass"
    THEN Throw("getConversations", requirePermission("conversation", "read"),
               NoId, Undefined)
    ELSE LET sorted == sortByLastMessageTime(
                          filterConversations(branchId, agentId, status))
             items == slice(sorted, (page - 1) * limit, limit)
             total == Len(sorted)
             totalPages == ceil(total, limit)
         IN  /\ last' = [Response("getConversations", "ok", "", NoId,
                                  Undefined, ids(items))
                            EXCEPT !.meta =
                               [branchId |-> branchId, agentId |-> agentId,
                                status |-> status, page |-> page,
                                limit |-> limit, total |-> total,
                                totalPages |-> totalPages,
                                hasMore |-> page < totalPages]]
             /\ syncLog' = << >>
             /\ UNCHANGED <<stores, syncSubscribers, currentContext,
                            inflight, issued, timers, clock>>

getConversationById(conversationId) ==
    IF requirePermission("conversation", "read") # "pass"
    THEN Throw("getConversationById", requirePermission("conversation", "read"),
               conversationId, Undefined)
    ELSE IF findIndex(conversations, conversationId) = 0
    THEN Fail("getConversationById", "CONVERSATION_NOT_FOUND", conversationId,
              Undefined)
    ELSE Return("getConversationById", conversationId, Undefined,
                <<conversationId>>)

----------------------------------------------------------------------------
(* Agents *)

AgentUpdates ==
    { [status |-> "online"], [status |-> "offline"], [maxChats |-> 2] }

\* findIndex on users by id finds a user for an agent id or finds none
spreadUser(agentId, updates) ==
    LET userIndex == findIndex(users, agentId)
    IN  IF userIndex # 0
        THEN [users EXCEPT ![userIndex] = spread(@, updates)]
        ELSE users

updateAgent(agentId, updates) ==
    LET agentIndex == findIndex(agents, agentId)
        changed == "status" \in DOMAIN updates
                      /\ updates.status # agents[agentIndex].status
    IN  IF requirePermission("agent", "update") # "pass"
        THEN Throw("updateAgent", requirePermission("agent", "update"), NoId, agentId)
        ELSE IF agentIndex = 0
        THEN Fail("updateAgent", "AGENT_NOT_FOUND", NoId, agentId)
        ELSE /\ agents' = [agents EXCEPT ![agentIndex] = spread(@, updates)]
             /\ users' = spreadUser(agentId, updates)
             /\ notifications' =
                   IF changed
                   THEN createNotificationInternal(
                            getBranchManagerId(agents[agentIndex].branchId),
                            "agent_status_changed")
                   ELSE notifications
             /\ auditLogs' = logAudit("agent_status_changed", NoId)
             /\ notifySyncChange(IF changed THEN 2 ELSE 1)
             /\ last' = Ok("updateAgent", NoId, agentId)
             /\ UNCHANGED <<conversations, tasks, reports, escalations,
                            syncSubscribers, currentContext, inflight, issued,
                            timers, clock>>

reassignAgent(agentId, newBranchId) ==
    LET agentIndex == findIndex(agents, agentId)
    IN  IF requirePermission("agent", "update") # "pass"
        THEN Throw("reassignAgent", requirePermission("agent", "update"), NoId, agentId)
        ELSE IF agentIndex = 0
        THEN Fail("reassignAgent", "AGENT_NOT_FOUND", NoId, agentId)
        ELSE /\ agents' = [agents EXCEPT ![agentIndex].branchId = newBranchId]
             /\ users' = spreadUser(agentId, [branchId |-> newBranchId])
             /\ auditLogs' = logAudit("agent_status_changed", NoId)
             /\ notifySyncChange(1)
             /\ last' = Ok("reassignAgent", NoId, agentId)
             /\ UNCHANGED <<conversations, tasks, reports, notifications,
                            escalations, syncSubscribers, currentContext,
                            inflight, issued, timers, clock>>

----------------------------------------------------------------------------
(* Conversations *)

ConversationUpdates ==
    { [status |-> "closed"], [status |-> "new"], [notes |-> "edited"],
      [messages |-> << >>] }

createConversation(branchId) ==
    LET conversation ==
            [id |-> Len(conversations) + 1, branchId |-> branchId,
             status |-> "new", assignedAgentId |-> Undefined, notes |-> "",
             messages |-> << >>, lastMessage |-> "",
             lastMessageTime |-> clock, unreadCount |-> 1]
    IN  IF requirePermission("conversation", "create") # "pass"
        THEN Throw("createConversation",
                   requirePermission("conversation", "create"), NoId, Undefined)
        ELSE /\ conversations' = <<conversation>> \o conversations
             /\ clock' = clock + 1
             /\ auditLogs' = logAudit("conversation_created", conversation.id)
             /\ notifySyncChange(1)
             /\ last' = Ok("createConversation", conversation.id, Undefined)
             /\ UNCHANGED <<users, agents, tasks, reports, notifications,
                            escalations, syncSubscribers, currentContext,
                            inflight, issued, timers>>

updateConversation(conversationId, updates) ==
    LET convIndex == findIndex(conversations, conversationId)
        changed == "status" \in DOMAIN updates
                      /\ updates.status # conversations[convIndex].status
    IN  IF requirePermission("conversation", "update") # "pass"
        THEN Throw("updateConversation",
                   requirePermission("conversation", "update"), conversationId,
                   Undefined)
        ELSE IF convIndex = 0
        THEN Fail("updateConversation", "CONVERSATION_NOT_FOUND",
                  conversationId, Undefined)
        ELSE /\ conversations' =
                   [conversations EXCEPT ![convIndex] = spread(@, updates)]
             /\ auditLogs' = IF changed
                             THEN logAudit("conversation_created", conversationId)
                             ELSE auditLogs
             /\ notifySyncChange(1)
             /\ last' = Ok("updateConversation", conversationId, Undefined)
             /\ UNCHANGED <<users, agents, tasks, reports, notifications,
                            escalations, syncSubscribers, currentContext,
                            inflight, issued, timers, clock>>

\* a workload counted before the latency delay: the one the call saw when
\* it was made
agentWorkloadAtCall(agentId) ==
    LET waiting == {call \in pending : call.agentId = agentId}
    IN  IF waiting = {}
        THEN Len(SelectSeq(conversations,
                   LAMBDA c : /\ c.assignedAgentId = agentId
                              /\ c.status # "closed"
                              /\ c.status # "resolved"))
        ELSE (CHOOSE call \in waiting : TRUE).load

\* conversations of the agent that are neither closed nor resolved
agentWorkload(agentId) ==
    Len(SelectSeq(conversations,
                  LAMBDA c : /\ c.assignedAgentId = agentId
                             /\ c.status # "closed"
                             /\ c.status # "resolved"))

\* a capacity check that lets one conversation too many in
atCapacityStrict(agentId) ==
    agentWorkload(agentId) > agents[findIndex(agents, agentId)].maxChats

\* if (agentWorkload >= agent.maxChats)
atCapacity(agentId) ==
    agentWorkload(agentId) >= agents[findIndex(agents, agentId)].maxChats

assignConversation(conversationId, agentId) ==
    LET convIndex == findIndex(conversations, conversationId)
    IN  IF requirePermission("conversation", "assign") # "pass"
        THEN Throw("assignConversation",
                   requirePermission("conversation", "assign"), conversationId,
                   agentId)
        ELSE IF convIndex = 0
        THEN Fail("assignConversation", "CONVERSATION_NOT_FOUND",
                  conversationId, agentId)
        ELSE IF findIndex(agents, agentId) = 0
        THEN Fail("assignConversation", "AGENT_NOT_FOUND", conversationId, agentId)
        ELSE IF atCapacity(agentId)
        THEN Fail("assignConversation", "AGENT_AT_CAPACITY", conversationId, agentId)
        ELSE /\ conversations' =
                   [conversations EXCEPT ![convIndex] =
                       spread(@, [assignedAgentId |-> agentId,
                                  status |-> "assigned"])]
             /\ auditLogs' = logAudit("conversation_assigned", conversationId)
             /\ notifications' = createNotificationInternal(agentId, "task_assigned")
             /\ notifySyncChange(2)
             /\ last' = Ok("assignConversation", conversationId, agentId)
             /\ UNCHANGED <<users, agents, tasks, reports, escalations,
                            syncSubscribers, currentContext, inflight, issued,
                            timers, clock>>

transferConversation(conversationId, newAgentId) ==
    LET convIndex == findIndex(conversations, conversationId)
    IN  IF requirePermission("conversation", "assign") # "pass"
        THEN Throw("transferConversation",
                   requirePermission("conversation", "assign"), conversationId,
                   newAgentId)
        ELSE IF convIndex = 0
        THEN Fail("transferConversation", "CONVERSATION_NOT_FOUND",
                  conversationId, newAgentId)
        ELSE /\ conversations' =
                   [conversations EXCEPT ![convIndex] =
                       spread(@, [assignedAgentId |-> newAgentId,
                                  status |-> "assigned"])]
             /\ auditLogs' =
                   logAuditWith("conversation_transferred", conversationId,
                                [fromAgentId |->
                                    conversations[convIndex].assignedAgentId,
                                 toAgentId |-> newAgentId])
             /\ notifications' =
                   createNotificationInternal(newAgentId, "task_assigned")
             /\ notifySyncChange(2)
             /\ last' = Ok("transferConversation", conversationId, newAgentId)
             /\ UNCHANGED <<users, agents, tasks, reports, escalations,
                            syncSubscribers, currentContext, inflight, issued,
                            timers, clock>>

escalateConversation(conversationId, level, assignedTo) ==
    LET convIndex == findIndex(conversations, conversationId)
        conversation == conversations[convIndex]
        escalation ==
            [id |-> Len(escalations) + 1, conversationId |-> conversationId,
             branchId |-> conversation.branchId, level |-> level,
             escalatedBy |-> currentContext.userId, assignedTo |-> assignedTo,
             status |-> "pending", resolvedBy |-> Undefined]
        notifyUserId == IF assignedTo # Undefined THEN assignedTo
                        ELSE getBranchManagerId(conversation.branchId)
    IN  IF requirePermission("escalation", "create") # "pass"
        THEN Throw("escalateConversation",
                   requirePermission("escalation", "create"), conversationId,
                   Undefined)
        ELSE IF convIndex = 0
        THEN Fail("escalateConversation", "CONVERSATION_NOT_FOUND",
                  conversationId, Undefined)
        ELSE /\ escalations' = <<escalation>> \o escalations
             /\ conversations' =
                   [conversations EXCEPT ![convIndex].status = "escalated"]
             /\ auditLogs' = logAudit("conversation_escalated", conversationId)
             /\ notifications' =
                   createNotificationInternal(notifyUserId, "conversation_escalated")
             /\ notifySyncChange(2)
             /\ last' = Response("escalateConversation", "ok", "",
                                 conversationId, notifyUserId, <<escalation.id>>)
             /\ UNCHANGED <<users, agents, tasks, reports, syncSubscribers,
                            currentContext, inflight, issued, timers, clock>>

\* a reopening that leaves a closed or resolved conversation as it is
reopenUnlessTerminal(convIndex) ==
    IF convIndex # 0 /\ conversations[convIndex].status \notin {"closed", "resolved"}
    THEN [conversations EXCEPT ![convIndex].status = "in_progress"]
    ELSE conversations

\* if (convIndex !== -1) this.conversations[convIndex].status = 'in_progress'
reopen(convIndex) ==
    IF convIndex # 0
    THEN [conversations EXCEPT ![convIndex].status = "in_progress"]
    ELSE conversations

resolveEscalation(escalationId) ==
    LET escIndex == findIndex(escalations, escalationId)
        convIndex == findIndex(conversations, escalations[escIndex].conversationId)
    IN  IF requirePermission("escalation", "update") # "pass"
        THEN Throw("resolveEscalation",
                   requirePermission("escalation", "update"), NoId, Undefined)
        ELSE IF escIndex = 0
        THEN Fail("resolveEscalation", "ESCALATION_NOT_FOUND", NoId, Undefined)
        ELSE /\ escalations' =
                   [escalations EXCEPT ![escIndex] =
                       spread(@, [status |-> "resolved",
                                  resolvedBy |-> currentContext.userId])]
             /\ conversations' = reopen(convIndex)
             /\ auditLogs' = logAudit("conversation_escalated",
                                      escalations[escIndex].conversationId)
             /\ notifySyncChange(1)
             /\ last' = Response("resolveEscalation", "ok", "",
                                 escalations[escIndex].conversationId,
                                 Undefined, <<escalationId>>)
             /\ UNCHANGED <<users, agents, tasks, reports, notifications,
                            syncSubscribers, currentContext, inflight, issued,
                            timers, clock>>

----------------------------------------------------------------------------
(* Messages *)

\* the replies simulateCustomerResponse picks from at random
Responses ==
    { "Thank you for your help!", "I understand, let me think about it.",
      "That sounds good, please proceed.", "Can you explain more about this?",
      "Alright, I will wait for your update." }

\* a push that puts the message at the head of the list
pushFront(messages, message) == <<message>> \o messages

\* messages.push(message)
push(messages, message) == Append(messages, message)

\* a delivery that goes on when the conversation is closed
skipReplyOnlyMissing(convIndex) == convIndex = 0

\* if (convIndex === -1 || conversations[convIndex].status === 'closed') return
skipReply(convIndex) ==
    convIndex = 0 \/ conversations[convIndex].status = "closed"

\* A caller calls sendMessage: the call waits in simulateLatency.  seq is
\* the position of the call among the sendMessage calls made.
callSendMessage(conversationId, content) ==
    /\ issued' = issued + 1
    /\ inflight' = inflight \cup
          {[seq |-> issued + 1, conversationId |-> conversationId,
            content |-> content]}
    /\ last' = Response("sendMessage", "pending", "", conversationId,
                        Undefined, << >>)
    /\ syncLog' = << >>
    /\ UNCHANGED <<stores, syncSubscribers, currentContext, timers, clock>>

\* The body of sendMessage, run when the latency delay of `call` is over.
\* The id of the message is fresh; the model takes the call's seq for it.
sendMessage(call) ==
    LET conversationId == call.conversationId
        convIndex == findIndex(conversations, conversationId)
        message == [id |-> call.seq, content |-> call.content,
                    senderId |-> currentContext.userId, senderType |-> "agent"]
    IN  /\ call \in inflight
        /\ inflight' = inflight \ {call}
        /\ UNCHANGED <<users, agents, tasks, reports, notifications,
                       escalations, syncSubscribers, currentContext, issued>>
        /\ syncLog' = << >>
        /\ IF requirePermission("message", "create") # "pass"
           THEN /\ last' = Thrown("sendMessage",
                                  requirePermission("message", "create"),
                                  conversationId, Undefined)
                /\ UNCHANGED <<conversations, auditLogs, timers, clock>>
           ELSE IF convIndex = 0
           THEN /\ last' = Error("sendMessage", "CONVERSATION_NOT_FOUND",
                                 conversationId, Undefined)
                /\ UNCHANGED <<conversations, auditLogs, timers, clock>>
           ELSE /\ conversations' =
                      [conversations EXCEPT ![convIndex] =
                          spread(@, [messages |-> push(@.messages, message),
                                     lastMessage |-> call.content,
                                     lastMessageTime |-> clock])]
                /\ clock' = clock + 1
                /\ auditLogs' = logAudit("message_sent", conversationId)
                /\ timers' = timers \cup
                      {[id |-> call.seq, conversationId |-> conversationId]}
                /\ last' = Response("sendMessage", "ok", "", conversationId,
                                    Undefined, <<call.seq>>)

\* The setTimeout callback of simulateCustomerResponse fires.  The reply is
\* appended before logAudit runs, and logAudit throws without a context.
customerResponse(timer, content) ==
    LET conversationId == timer.conversationId
        convIndex == findIndex(conversations, conversationId)
        responseMessage == [id |-> 0 - timer.id, content |-> content,
                            senderId |-> "customer", senderType |-> "customer"]
    IN  /\ timer \in timers
        /\ timers' = timers \ {timer}
        /\ UNCHANGED <<users, agents, tasks, reports, notifications,
                       escalations, syncSubscribers, currentContext, inflight,
                       issued>>
        /\ IF skipReply(convIndex)
           THEN /\ last' = Response("customerResponse", "ok", "skipped",
                                    conversationId, Undefined, << >>)
                /\ syncLog' = << >>
                /\ UNCHANGED <<conversations, auditLogs, clock>>
           ELSE /\ conversations' =
                      [conversations EXCEPT ![convIndex] =
                          spread(@, [messages |-> push(@.messages, responseMessage),
                                     lastMessage |-> content,
                                     lastMessageTime |-> clock,
                                     unreadCount |-> @.unreadCount + 1])]
                /\ clock' = clock + 1
                /\ IF hasContext
                   THEN /\ auditLogs' = logAudit("message_received", conversationId)
                        /\ notifySyncChange(1)
                        /\ last' = Response("customerResponse", "ok", "",
                                            conversationId, Undefined, << >>)
                   ELSE /\ UNCHANGED auditLogs
                        /\ syncLog' = << >>
                        /\ last' = Thrown("customerResponse",
                                          "No authenticated context",
                                          conversationId, Undefined)

----------------------------------------------------------------------------
(* Tasks *)

createTask(branchId, assignedTo) ==
    LET task == [id |-> Len(tasks) + 1, branchId |-> branchId,
                 assignedBy |-> currentContext.userId, assignedTo |-> assignedTo,
                 status |-> "pending", completedAt |-> FALSE]
    IN  IF requirePermission("task", "create") # "pass"
        THEN Throw("createTask", requirePermission("task", "create"), NoId,
                   assignedTo)
        ELSE /\ tasks' = <<task>> \o tasks
             /\ auditLogs' = logAudit("task_created", NoId)
             /\ notifications' = createNotificationInternal(assignedTo, "task_assigned")
             /\ notifySyncChange(2)
             /\ last' = Response("createTask", "ok", "", NoId, assignedTo, <<task.id>>)
             /\ UNCHANGED <<users, agents, conversations, reports, escalations,
                            syncSubscribers, currentContext, inflight, issued,
                            timers, clock>>

updateTaskStatus(taskId, status) ==
    LET taskIndex == findIndex(tasks, taskId)
    IN  IF requirePermission("task", "update") # "pass"
        THEN Throw("updateTaskStatus", requirePermission("task", "update"), NoId,
                   Undefined)
        ELSE IF taskIndex = 0
        THEN Fail("updateTaskStatus", "TASK_NOT_FOUND", NoId, Undefined)
        ELSE /\ tasks' = [tasks EXCEPT ![taskIndex] =
                             spread(@, [status |-> status,
                                        completedAt |-> (status = "completed")])]
             /\ auditLogs' = logAudit(IF status = "completed"
                                      THEN "task_completed" ELSE "task_updated",
                                      NoId)
             /\ notifySyncChange(1)
             /\ last' = Response("updateTaskStatus", "ok", "", NoId, Undefined,
                                 <<taskId>>)
             /\ UNCHANGED <<users, agents, conversations, reports, notifications,
                            escalations, syncSubscribers, currentContext,
                            inflight, issued, timers, clock>>

assignTask(taskId, agentId) ==
    LET taskIndex == findIndex(tasks, taskId)
    IN  IF requirePermission("task", "assign") # "pass"
        THEN Throw("assignTask", requirePermission("task", "assign"), NoId, agentId)
        ELSE IF taskIndex = 0
        THEN Fail("assignTask", "TASK_NOT_FOUND", NoId, agentId)
        ELSE /\ tasks' = [tasks EXCEPT ![taskIndex] =
                             spread(@, [assignedTo |-> agentId,
                                        status |-> "pending"])]
             /\ auditLogs' = logAudit("task_assigned", NoId)
             /\ notifications' = createNotificationInternal(agentId, "task_assigned")
             /\ notifySyncChange(2)
             /\ last' = Response("assignTask", "ok", "", NoId, agentId, <<taskId>>)
             /\ UNCHANGED <<users, agents, conversations, reports, escalations,
                            syncSubscribers, currentContext, inflight, issued,
                            timers, clock>>

----------------------------------------------------------------------------
(* Reports *)

createReport(branchId) ==
    LET report == [id |-> Len(reports) + 1, branchId |-> branchId,
                   submittedBy |-> currentContext.userId, status |-> "draft",
                   reviewedBy |-> Undefined]
    IN  IF requirePermission("report", "create") # "pass"
        THEN Throw("createReport", requirePermission("report", "create"), NoId,
                   Undefined)
        ELSE /\ reports' = <<report>> \o reports
             /\ auditLogs' = logAudit("report_created", NoId)
             /\ notifySyncChange(1)
             /\ last' = Response("createReport", "ok", "", NoId, Undefined,
                                 <<report.id>>)
             /\ UNCHANGED <<users, agents, conversations, tasks, notifications,
                            escalations, syncSubscribers, currentContext,
                            inflight, issued, timers, clock>>

submitReport(reportId) ==
    LET reportIndex == findIndex(reports, reportId)
    IN  IF requirePermission("report", "update") # "pass"
        THEN Throw("submitReport", requirePermission("report", "update"), NoId,
                   Undefined)
        ELSE IF reportIndex = 0
        THEN Fail("submitReport", "REPORT_NOT_FOUND", NoId, Undefined)
        ELSE /\ reports' = [reports EXCEPT ![reportIndex].status = "submitted"]
             /\ auditLogs' = logAudit("report_submitted", NoId)
             /\ notifications' = createNotificationInternal("admin-1", "report_submitted")
             /\ notifySyncChange(2)
             /\ last' = Response("submitReport", "ok", "", NoId, Undefined,
                                 <<reportId>>)
             /\ UNCHANGED <<users, agents, conversations, tasks, escalations,
                            syncSubscribers, currentContext, inflight, issued,
                            timers, clock>>

reviewReport(reportId, status) ==
    LET reportIndex == findIndex(reports, reportId)
    IN  IF requirePermission("report", "approve") # "pass"
        THEN Throw("reviewReport", requirePermission("report", "approve"), NoId,
                   Undefined)
        ELSE IF reportIndex = 0
        THEN Fail("reviewReport", "REPORT_NOT_FOUND", NoId, Undefined)
        ELSE /\ reports' = [reports EXCEPT ![reportIndex] =
                               spread(@, [status |-> status,
                                          reviewedBy |-> currentContext.userId])]
             /\ auditLogs' = logAudit("report_reviewed", NoId)
             /\ notifications' =
                   createNotificationInternal(reports[reportIndex].submittedBy,
                                              "report_reviewed")
             /\ notifySyncChange(2)
             /\ last' = Response("reviewReport", "ok", "", NoId, Undefined,
                                 <<reportId>>)
             /\ UNCHANGED <<users, agents, conversations, tasks, escalations,
                            syncSubscribers, currentContext, inflight, issued,
                            timers, clock>>

----------------------------------------------------------------------------
(* Notifications *)

markNotificationAsRead(notificationId) ==
    LET notifIndex == findIndex(notifications, notificationId)
    IN  /\ notifications' =
              IF notifIndex # 0
              THEN [notifications EXCEPT ![notifIndex].isRead = TRUE]
              ELSE notifications
        /\ last' = Response("markNotificationAsRead", "ok", "", NoId, Undefined,
                            <<notificationId>>)
        /\ syncLog' = << >>
        /\ UNCHANGED <<users, agents, conversations, tasks, reports,
                       escalations, auditLogs, syncSubscribers, currentContext,
                       inflight, issued, timers, clock>>

markAllNotificationsAsRead ==
    IF getContext # "pass"
    THEN Throw("markAllNotificationsAsRead", getContext, NoId, Undefined)
    ELSE /\ notifications' =
               [i \in DOMAIN notifications |->
                   IF notifications[i].userId = currentContext.userId
                   THEN spread(notifications[i], [isRead |-> TRUE])
                   ELSE notifications[i]]
         /\ last' = Ok("markAllNotificationsAsRead", NoId, Undefined)
         /\ syncLog' = << >>
         /\ UNCHANGED <<users, agents, conversations, tasks, reports,
                        escalations, auditLogs, syncSubscribers, currentContext,
                        inflight, issued, timers, clock>>

----------------------------------------------------------------------------
(* The other gated reads.  The order of their result (a sort by time or by
   priority) is not modelled: items is the filtered list. *)

getEscalations(status) ==
    IF requirePermission("escalation", "read") # "pass"
    THEN Throw("getEscalations", requirePermission("escalation", "read"), NoId,
               Undefined)
    ELSE LET scoped == IF currentContext.userRole = "branch_manager"
                       THEN SelectSeq(escalations,
                                LAMBDA e : e.branchId = currentContext.branchId)
                       ELSE escalations
             byStatus == IF status # Undefined
                         THEN SelectSeq(scoped, LAMBDA e : e.status = status)
                         ELSE scoped
         IN  Return("getEscalations", NoId, Undefined, ids(byStatus))

getTasks(agentId, status) ==
    IF requirePermission("task", "read") # "pass"
    THEN Throw("getTasks", requirePermission("task", "read"), NoId, Undefined)
    ELSE LET scoped == IF currentContext.userRole = "agent"
                       THEN SelectSeq(tasks,
                                LAMBDA t : t.assignedTo = currentContext.userId)
                       ELSE tasks
             byAgent == IF agentId # Undefined
                        THEN SelectSeq(scoped, LAMBDA t : t.assignedTo = agentId)
                        ELSE scoped
             byStatus == IF status # Undefined
                         THEN SelectSeq(byAgent, LAMBDA t : t.status = status)
                         ELSE byAgent
         IN  Return("getTasks", NoId, Undefined, ids(byStatus))

getReports(status) ==
    IF requirePermission("report", "read") # "pass"
    THEN Throw("getReports", requirePermission("report", "read"), NoId, Undefined)
    ELSE LET scoped == IF currentContext.userRole = "branch_manager"
                       THEN SelectSeq(reports,
                                LAMBDA r : r.submittedBy = currentContext.userId)
                       ELSE reports
             byStatus == IF status # Undefined
                         THEN SelectSeq(scoped, LAMBDA r : r.status = status)
                         ELSE scoped
         IN  Return("getReports", NoId, Undefined, ids(byStatus))

getAdminDashboardStats ==
    IF requirePermission("*", "read") # "pass"
    THEN Throw("getAdminDashboardStats", requirePermission("*", "read"), NoId,
               Undefined)
    ELSE Return("getAdminDashboardStats", NoId, Undefined, << >>)

----------------------------------------------------------------------------
(* The arguments callers pass: the ids of stored entities, and one id that
   names nothing *)

ConversationArgs == {conversations[i].id : i \in DOMAIN conversations} \cup {NoId}
AgentArgs == AgentIds \cup {UnknownAgent}
TaskArgs == {tasks[i].id : i \in DOMAIN tasks} \cup {NoId}
ReportArgs == {reports[i].id : i \in DOMAIN reports} \cup {NoId}
EscalationArgs == {escalations[i].id : i \in DOMAIN escalations} \cup {NoId}
NotificationArgs == {notifications[i].id : i \in DOMAIN notifications} \cup {NoId}

\* a caller makes one more call, of at most `bound`, and awaits it
Called(bound, handler) ==
    /\ calls < bound
    /\ calls' = calls + 1
    /\ inflight = {}
    /\ pending = {}
    /\ handler
    /\ UNCHANGED <<pending, held>>

\* a continuation of a call made earlier runs, or a timer fires
Continued(handler) == handler /\ UNCHANGED <<calls, pending, held>>

\* a caller makes one more call, of at most `bound`, while earlier calls may
\* still wait in simulateLatency
Overlapped(bound, handler) ==
    /\ calls < bound
    /\ calls' = calls + 1
    /\ handler
    /\ UNCHANGED <<pending, held>>

\* A caller calls a method on a conversation and an agent and does not await
\* it: the call waits in simulateLatency.  The call keeps what the caller
\* could see when it made the call: the session, and the agent's workload.
Issued(bound, op, conversationId, agentId) ==
    /\ calls < bound
    /\ calls' = calls + 1
    /\ pending' = pending \cup
          {[seq |-> calls + 1, op |-> op, conversationId |-> conversationId,
            agentId |-> agentId, context |-> currentContext,
            load |-> agentWorkload(agentId)]}
    /\ last' = Response(op, "pending", "", conversationId, agentId, << >>)
    /\ syncLog' = << >>
    /\ UNCHANGED <<stores, syncSubscribers, currentContext, inflight, issued,
                   timers, clock, held>>

\* the latency delay of `call` is over and the body of its method runs
Resumed(call, handler) ==
    /\ call \in pending
    /\ pending' = pending \ {call}
    /\ handler
    /\ UNCHANGED <<calls, held>>

----------------------------------------------------------------------------
(* Spec: every operation of the facade, called by one caller who awaits each
   call.  subscribeToSync is synchronous and is not counted as a call.  The
   replies that sendMessage schedules stay pending here; SendSpec delivers
   them. *)

Next ==
    \/ \E cb \in Callbacks : Continued(inflight = {} /\ subscribeToSync(cb))
    \/ \E cb \in Callbacks : Continued(inflight = {} /\ unsubscribe(cb))
    \/ \E email \in Emails, password \in Passwords :
            Called(MaxCalls, login(email, password))
    \/ Called(MaxCalls, logout)
    \/ Called(MaxCalls, getCurrentUser)
    \/ Called(MaxCalls, getUsers)
    \/ Called(MaxCalls, getBranches)
    \/ Called(MaxCalls, getAgents(Undefined, Undefined))
    \/ \E b \in {Undefined, "b1"}, a \in {Undefined, "agent-1"},
          st \in {Undefined, "assigned"},
          pl \in {<<1, DefaultLimit>>, <<1, 1>>, <<2, 1>>} :
            Called(MaxCalls, getConversations(b, a, st, pl[1], pl[2]))
    \/ \E c \in ConversationArgs : Called(MaxCalls, getConversationById(c))
    \/ Called(MaxCalls, getEscalations(Undefined))
    \/ Called(MaxCalls, getTasks(Undefined, Undefined))
    \/ Called(MaxCalls, getReports(Undefined))
    \/ Called(MaxCalls, getAdminDashboardStats)
    \/ Called(MaxCalls, getNotifications)
    \/ \E a \in {"agent-1", UnknownAgent}, u \in AgentUpdates :
            Called(MaxCalls, updateAgent(a, u))
    \/ Called(MaxCalls, reassignAgent("agent-1", "b2"))
    \/ Called(MaxCalls, createConversation("b1"))
    \/ \E c \in ConversationArgs, u \in ConversationUpdates :
            Called(MaxCalls, updateConversation(c, u))
    \/ \E c \in ConversationArgs, a \in AgentArgs :
            Called(MaxCalls, assignConversation(c, a))
    \/ \E c \in ConversationArgs, a \in AgentArgs :
            Called(MaxCalls, transferConversation(c, a))
    \/ \E c \in ConversationArgs :
            Called(MaxCalls, escalateConversation(c, "level1", Undefined))
    \/ \E e \in EscalationArgs : Called(MaxCalls, resolveEscalation(e))
    \/ \E c \in ConversationArgs, m \in Contents :
            Called(MaxCalls, callSendMessage(c, m))
    \/ \E call \in inflight : Continued(sendMessage(call))
    \/ Called(MaxCalls, createTask("b1", "agent-1"))
    \/ \E t \in TaskArgs : Called(MaxCalls, updateTaskStatus(t, "completed"))
    \/ \E t \in TaskArgs : Called(MaxCalls, assignTask(t, "agent-2"))
    \/ Called(MaxCalls, createReport("b1"))
    \/ \E r \in ReportArgs : Called(MaxCalls, submitReport(r))
    \/ \E r \in ReportArgs : Called(MaxCalls, reviewReport(r, "approved"))
    \/ \E n \in NotificationArgs : Called(MaxCalls, markNotificationAsRead(n))
    \/ Called(MaxCalls, markAllNotificationsAsRead)

Spec == Init /\ [][Next]_vars

----------------------------------------------------------------------------
(* Properties of the facade under Spec *)

\* the (resource, action) pair each gated mutation asks requirePermission for
Gate ==
    [ updateAgent |-> <<"agent", "update">>,
      reassignAgent |-> <<"agent", "update">>,
      createConversation |-> <<"conversation", "create">>,
      updateConversation |-> <<"conversation", "update">>,
      assignConversation |-> <<"conversation", "assign">>,
      transferConversation |-> <<"conversation", "assign">>,
      escalateConversation |-> <<"escalation", "create">>,
      resolveEscalation |-> <<"escalation", "update">>,
      sendMessage |-> <<"message", "create">>,
      createTask |-> <<"task", "create">>,
      updateTaskStatus |-> <<"task", "update">>,
      assignTask |-> <<"task", "assign">>,
      createReport |-> <<"report", "create">>,
      submitReport |-> <<"report", "update">>,
      reviewReport |-> <<"report", "approve">> ]

\* the gated reads
GatedReads ==
    { "getUsers", "getAgents", "getConversations", "getConversationById",
      "getEscalations", "getTasks", "getReports", "getAdminDashboardStats" }

\* the operations that need a session: the gated ones and those that call
\* getContext themselves
SessionOps ==
    DOMAIN Gate \cup GatedReads \cup
    { "getCurrentUser", "getBranches", "getNotifications",
      "markAllNotificationsAsRead" }

\* the step is the body of operation op running to its end
Ran(op) == last'.op = op /\ last'.outcome # "pending"

\* the role of the session holds the pair, stated on the permission table
Holds(role, pair) ==
    \E k \in DOMAIN ROLE_PERMISSIONS[role] :
        LET p == ROLE_PERMISSIONS[role][k]
        IN  /\ p.resource \in {"*", pair[1]}
            /\ pair[2] \in p.actions

\* C1: a gated mutation called by a session whose role does not hold the
\* required (resource, action) pair is denied, every store keeps its value
\* and no sync subscriber is invoked.
C1_DeniedChangesNothing ==
    [][ \A op \in DOMAIN Gate :
          (/\ Ran(op)
           /\ hasContext
           /\ ~Holds(currentContext.userRole, Gate[op]))
          => /\ last'.outcome = "throw"
             /\ last'.code = "Permission denied"
             /\ stores' = stores
             /\ syncLog' = << >> ]_vars

\* an agent session with a subscriber listening was denied assignConversation
C1_Witness ==
    /\ last.op = "assignConversation"
    /\ last.outcome = "throw"
    /\ last.code = "Permission denied"
    /\ currentContext.userRole = "agent"
    /\ syncSubscribers # << >>

\* C2: every failing facade call comes back as an error envelope and none is
\* raised as an exception, a permission denial and a call without a session
\* included.
C2_FailuresAreEnvelopes ==
    last.op \in SessionOps => last.outcome \in {"ok", "error", "pending"}

\* the conversation or agent with this id
byId(arr, id) == CHOOSE x \in Range(arr) : x.id = id

\* the conversations an agent holds that are neither resolved nor closed
openLoad(agentId) ==
    Cardinality({ i \in DOMAIN conversations :
                    /\ conversations[i].assignedAgentId = agentId
                    /\ conversations[i].status \notin {"resolved", "closed"} })

\* C3: assignConversation(c, a) on an existing conversation and an existing
\* agent, under a session permitted conversation:assign, fails with
\* AGENT_AT_CAPACITY when the agent's open load is at least maxChats, and
\* otherwise succeeds and leaves c assigned to a with status assigned.
C3_AssignRespectsCapacity ==
    [][ (/\ Ran("assignConversation")
         /\ hasContext
         /\ Holds(currentContext.userRole, <<"conversation", "assign">>)
         /\ \E c \in Range(conversations) : c.id = last'.conv
         /\ \E a \in Range(agents) : a.id = last'.who)
        => IF openLoad(last'.who) >= byId(agents, last'.who).maxChats
           THEN /\ last'.outcome = "error"
                /\ last'.code = "AGENT_AT_CAPACITY"
                /\ stores' = stores
           ELSE /\ last'.outcome = "ok"
                /\ byId(conversations', last'.conv).assignedAgentId = last'.who
                /\ byId(conversations', last'.conv).status = "assigned" ]_vars

\* an agent whose open load equals maxChats was refused a conversation that
\* is among that load
C3_Witness ==
    /\ last.op = "assignConversation"
    /\ last.code = "AGENT_AT_CAPACITY"
    /\ openLoad(last.who) = byId(agents, last.who).maxChats
    /\ byId(conversations, last.conv).assignedAgentId = last.who
    /\ byId(conversations, last.conv).status = "assigned"

\* the stored data an audit entry reports on
audited == <<users, agents, conversations, tasks, reports, escalations,
             notifications>>

\* C4: every successful facade call that changes stored data adds exactly
\* one entry to the audit log, performed by the user of the session.
C4_EveryChangeAudited ==
    [][ (/\ last'.op \notin {"customerResponse", "subscribeToSync", "unsubscribe"}
         /\ last'.outcome = "ok"
         /\ audited' # audited)
        => /\ Len(auditLogs') = Len(auditLogs) + 1
           /\ SubSeq(auditLogs', 2, Len(auditLogs')) = auditLogs
           /\ auditLogs'[1].performedBy = currentContext.userId ]_vars

\* C7: login with an email no stored user has fails with INVALID_CREDENTIALS
\* and leaves the session context as it was; login with a stored email
\* succeeds whatever the password and sets the context to that user's id,
\* role and branch.
C7_LoginByEmailOnly ==
    [][ Ran("login")
        => LET matches == { i \in DOMAIN users : users[i].email = last'.who }
           IN  IF matches = {}
               THEN /\ last'.outcome = "error"
                    /\ last'.code = "INVALID_CREDENTIALS"
                    /\ currentContext' = currentContext
               ELSE /\ last'.outcome = "ok"
                    /\ \E i \in matches :
                          currentContext' = [userId |-> users[i].id,
                                             userRole |-> users[i].role,
                                             branchId |-> users[i].branchId] ]_vars

\* the branch manager logged in with a password that is not the demo one
C7_Witness ==
    /\ last.op = "login"
    /\ last.outcome = "ok"
    /\ last.arg = "secret"
    /\ currentContext = [userId |-> "manager-1", userRole |-> "branch_manager",
                         branchId |-> "b1"]

\* C8: while no session is active every operation that needs one fails with
\* the no-session condition and leaves the stores and the context alone.
C8_NoSessionNoEffect ==
    [][ \A op \in SessionOps :
          (Ran(op) /\ ~hasContext)
          => /\ last'.outcome = "throw"
             /\ last'.code = "No authenticated context"
             /\ stores' = stores
             /\ currentContext' = currentContext
             /\ syncLog' = << >> ]_vars

\* after logout, markAllNotificationsAsRead failed and no notification was
\* marked
C8_Witness ==
    /\ ~hasContext
    /\ last.op = "markAllNotificationsAsRead"
    /\ last.outcome = "throw"
    /\ \E n \in Range(notifications) : ~n.isRead

\* the conversation is inside the scope of the session's role
inScope(c) ==
    \/ currentContext.userRole = "admin"
    \/ /\ currentContext.userRole = "branch_manager"
       /\ c.branchId = currentContext.branchId
    \/ /\ currentContext.userRole = "agent"
       /\ c.assignedAgentId = currentContext.userId

\* C9: whatever the filters and the page, getConversations returns only
\* stored conversations inside the scope of the session's role.
C9_ListWithinScope ==
    (last.op = "getConversations" /\ last.outcome = "ok")
    => \A k \in DOMAIN last.items :
          /\ \E c \in Range(conversations) : c.id = last.items[k]
          /\ inScope(byId(conversations, last.items[k]))

\* an agent session listed its conversations while another conversation was
\* out of its scope
C9_Witness ==
    /\ last.op = "getConversations"
    /\ last.outcome = "ok"
    /\ currentContext.userRole = "agent"
    /\ last.items # << >>
    /\ \E c \in Range(conversations) : ~inScope(c)

\* the operations on one conversation by its id
ByIdOps ==
    { "getConversationById", "updateConversation", "assignConversation",
      "transferConversation", "sendMessage" }

\* C10: for a session that is not an admin's, an operation on one
\* conversation by id succeeds only when the conversation is inside the
\* scope of the role.
C10_ByIdWithinScope ==
    [][ \A op \in ByIdOps :
          (/\ Ran(op)
           /\ last'.outcome = "ok"
           /\ hasContext
           /\ \E c \in Range(conversations) : c.id = last'.conv)
          => inScope(byId(conversations, last'.conv)) ]_vars

----------------------------------------------------------------------------
(* SendSpec: the message flow.  Callers do not await one another, so bodies
   of sendMessage run in any order once their latency delay is over, and the
   replies that were scheduled are delivered.  FairSendSpec adds what the
   event loop gives: a latency delay ends and a timer that was set fires. *)

SendEmails == {"agent1@example.com", "manager@example.com"}

\* the timers the bounded runs can set
TimerSpace ==
    { [id |-> i, conversationId |-> c] :
        i \in 1..MaxSendCalls, c \in {NoId, 1, 2} }

\* the replies the runs of SendSpec draw: two of the five
DrawnResponses ==
    { "Thank you for your help!", "Can you explain more about this?" }

Deliver(timer) ==
    \E r \in DrawnResponses : Continued(customerResponse(timer, r))

SendNext ==
    \/ \E email \in SendEmails : Overlapped(MaxSendCalls, login(email, "demo123"))
    \/ Overlapped(MaxSendCalls, logout)
    \/ \E c \in ConversationArgs, u \in ConversationUpdates :
            Overlapped(MaxSendCalls, updateConversation(c, u))
    \/ \E c \in ConversationArgs, m \in Contents :
            Overlapped(MaxSendCalls, callSendMessage(c, m))
    \/ \E call \in inflight : Continued(sendMessage(call))
    \/ \E timer \in timers : Deliver(timer)

SendSpec == Init /\ [][SendNext]_vars

FairSendSpec ==
    /\ Init
    /\ [][SendNext]_vars
    /\ WF_vars(\E call \in inflight : Continued(sendMessage(call)))
    /\ \A timer \in TimerSpace : WF_vars(Deliver(timer))

----------------------------------------------------------------------------
(* Properties of the message flow *)

\* the messages of the conversation with this id, << >> when there is none
messagesOf(arr, id) ==
    IF \E c \in Range(arr) : c.id = id THEN byId(arr, id).messages ELSE << >>

\* s is t with exactly one more message, by this kind of sender, at the end
OneMore(s, t, senderType) ==
    /\ Len(s) = Len(t) + 1
    /\ SubSeq(s, 1, Len(t)) = t
    /\ s[Len(s)].senderType = senderType

\* C5: a successful sendMessage schedules exactly one reply delivery and no
\* other call schedules any; a delivery that fires on a conversation that is
\* not closed appends exactly one customer message and adds one to
\* unreadCount, one that fires on a closed conversation changes nothing; and
\* every delivery that was scheduled fires.
C5_ReplyDelivered ==
    /\ [][ /\ (Ran("sendMessage") /\ last'.outcome = "ok")
              => /\ Cardinality(timers' \ timers) = 1
                 /\ timers \subseteq timers'
                 /\ \A t \in timers' \ timers : t.conversationId = last'.conv
           /\ (last'.op # "customerResponse"
               /\ ~(Ran("sendMessage") /\ last'.outcome = "ok"))
              => timers' = timers
           /\ last'.op = "customerResponse"
              => /\ Cardinality(timers \ timers') = 1
                 /\ timers' \subseteq timers
                 /\ \A t \in timers \ timers' :
                       LET c == byId(conversations, t.conversationId)
                           d == byId(conversations', t.conversationId)
                       IN  /\ t.conversationId = last'.conv
                           /\ IF c.status # "closed"
                              THEN /\ OneMore(d.messages, c.messages, "customer")
                                   /\ d.unreadCount = c.unreadCount + 1
                                   /\ \A o \in Range(conversations) :
                                         o.id # c.id => o \in Range(conversations')
                              ELSE conversations' = conversations ]_vars
    /\ \A t \in TimerSpace : (t \in timers) ~> (t \notin timers)

\* a delivery was skipped on a closed conversation that holds the agent's
\* message and no reply
C5_Witness ==
    /\ last.op = "customerResponse"
    /\ last.code = "skipped"
    /\ byId(conversations, last.conv).status = "closed"
    /\ Len(byId(conversations, last.conv).messages) = 1
    /\ timers = {}

----------------------------------------------------------------------------
(* Sync subscribers *)

\* C11: every successful facade operation that changes stored data invokes
\* each registered subscriber exactly once, in the order of registration.
C11_SubscribersOncePerChange ==
    [][ (/\ last'.op \notin {"customerResponse", "subscribeToSync", "unsubscribe"}
         /\ last'.outcome = "ok"
         /\ audited' # audited)
        => syncLog' = syncSubscribers ]_vars

----------------------------------------------------------------------------
(* PermSpec: hasPermission asked for any resource and action, under the
   session of each role *)

Actions ==
    {"create", "read", "update", "delete", "assign", "escalate", "approve"}

\* the resources the table names, the wildcard, and one named nowhere
Resources ==
    {"conversation", "task", "report", "agent", "escalation", "analytics",
     "message", "*", "billing"}

\* this.hasPermission(resource, action): the answer, or the exception of
\* getContext
checkPermission(resource, action) ==
    IF getContext # "pass"
    THEN /\ last' = [Thrown("hasPermission", getContext, NoId, resource)
                        EXCEPT !.arg = action]
         /\ syncLog' = << >>
         /\ UNCHANGED <<stores, syncSubscribers, currentContext, inflight,
                        issued, timers, clock>>
    ELSE /\ last' = [Response("hasPermission", "ok",
                              IF hasPermission(resource, action)
                              THEN "true" ELSE "false",
                              NoId, resource, << >>)
                        EXCEPT !.arg = action]
         /\ syncLog' = << >>
         /\ UNCHANGED <<stores, syncSubscribers, currentContext, inflight,
                        issued, timers, clock>>

PermNext ==
    \/ \E email \in Emails : Continued(login(email, "demo123"))
    \/ Continued(logout)
    \/ \E resource \in Resources, action \in Actions :
            Continued(checkPermission(resource, action))

PermSpec == Init /\ [][PermNext]_vars

\* the (resource, action) pairs the table lists for the role
Listed(role) ==
    UNION { { <<ROLE_PERMISSIONS[role][k].resource, a>> :
                a \in ROLE_PERMISSIONS[role][k].actions } :
            k \in DOMAIN ROLE_PERMISSIONS[role] }

\* C12: the check answers true exactly when the role's list holds an entry
\* for the resource or for '*' with the action: for an admin on every pair,
\* a resource named nowhere included, and for the other roles on exactly
\* the pairs listed for them.
C12_PermissionTable ==
    (last.op = "hasPermission" /\ last.outcome = "ok")
    => LET role == currentContext.userRole
           permitted == \/ <<last.who, last.arg>> \in Listed(role)
                        \/ <<"*", last.arg>> \in Listed(role)
       IN  /\ last.code = (IF permitted THEN "true" ELSE "false")
           /\ role = "admin" => last.code = "true"
           /\ role # "admin" =>
                 (last.code = "true" <=> <<last.who, last.arg>> \in Listed(role))

\* an admin session was granted an action on a resource named nowhere
C12_Witness ==
    /\ last.op = "hasPermission"
    /\ last.who = "billing"
    /\ last.code = "true"
    /\ currentContext.userRole = "admin"

----------------------------------------------------------------------------
(* PageSpec: getConversations over stores of several sizes.  New
   conversations arrive, a message moves an old conversation to the front
   of the time order, and the list is read with every filter, page and
   limit.  A read changes nothing, so a second read in a row returns what
   the first did: the list is read once after each change. *)

PageNext ==
    \/ \E email \in SendEmails : Called(MaxPageCalls, login(email, "demo123"))
    \/ \E b \in Branches : Called(MaxPageCalls, createConversation(b))
    \/ \E m \in Contents : Called(MaxPageCalls, callSendMessage(1, m))
    \/ \E call \in inflight : Continued(sendMessage(call))
    \/ \E b \in {Undefined, "b1"}, a \in {Undefined, "agent-1"},
          st \in {Undefined, "new"}, page \in 1..MaxPage, limit \in 1..MaxLimit :
            /\ inflight = {}
            /\ last.op # "getConversations"
            /\ Continued(getConversations(b, a, st, page, limit))

PageSpec == Init /\ [][PageNext]_vars

\* the conversations inside the role scope that pass the filters of the call
Matching(meta) ==
    { c \in Range(conversations) :
        /\ inScope(c)
        /\ meta.branchId # Undefined => c.branchId = meta.branchId
        /\ meta.agentId # Undefined => c.assignedAgentId = meta.agentId
        /\ meta.status # Undefined => c.status = meta.status }

Min(a, b) == IF a < b THEN a ELSE b
Max(a, b) == IF a > b THEN a ELSE b

\* C13: page p of limit L over the N matching conversations returns
\* total = N, min(L, max(0, N - (p-1)*L)) items that are the p-th slice of
\* the matching conversations by lastMessageTime descending, and hasMore
\* exactly when p*L < N.
C13_Pagination ==
    (last.op = "getConversations" /\ last.outcome = "ok")
    => LET m == last.meta
           N == Cardinality(Matching(m))
           before == (m.page - 1) * m.limit
       IN  /\ m.total = N
           /\ Len(last.items) = Min(m.limit, Max(0, N - before))
           /\ m.hasMore = (m.page * m.limit < N)
           /\ \A k \in DOMAIN last.items :
                 \E c \in Matching(m) :
                    /\ c.id = last.items[k]
                    /\ Cardinality({ d \in Matching(m) :
                          d.lastMessageTime > c.lastMessageTime })
                       = before + k - 1

\* page 2 of limit 2 over five matching conversations, the oldest of them
\* moved to the front by a message: two items and more to come
C13_Witness ==
    /\ last.op = "getConversations"
    /\ last.meta.total = 5
    /\ last.meta.page = 2
    /\ last.meta.limit = 2
    /\ Len(last.items) = 2
    /\ last.meta.hasMore
    /\ \E i, j \in DOMAIN conversations :
          /\ i < j
          /\ conversations[i].lastMessageTime < conversations[j].lastMessageTime

----------------------------------------------------------------------------
(* EscSpec: escalations.  A conversation is escalated, closed, written to
   and answered, and escalations are resolved, also a second time, under
   the session of each role. *)

EscNext ==
    \/ \E email \in SendEmails : Called(MaxEscCalls, login(email, "demo123"))
    \/ \E c \in ConversationArgs, to \in {Undefined, "agent-2"} :
            Called(MaxEscCalls, escalateConversation(c, "level1", to))
    \/ \E e \in EscalationArgs : Called(MaxEscCalls, resolveEscalation(e))
    \/ \E u \in {[status |-> "closed"], [status |-> "resolved"]} :
            Called(MaxEscCalls, updateConversation(1, u))
    \/ Called(MaxEscCalls, reassignAgent("agent-1", "b2"))
    \/ \E m \in Contents : Called(MaxEscCalls, callSendMessage(1, m))
    \/ \E call \in inflight : Continued(sendMessage(call))
    \/ \E timer \in timers : Deliver(timer)

EscSpec == Init /\ [][EscNext]_vars

\* C14: resolveEscalation on an existing escalation leaves the linked
\* conversation in_progress whatever its status was, and the escalation
\* resolved by the user of the session, also when the escalation was
\* resolved before.
C14_ResolveReopens ==
    [][ (Ran("resolveEscalation") /\ last'.outcome = "ok")
        => LET e == byId(escalations', last'.items[1])
           IN  /\ \E x \in Range(escalations) : x.id = last'.items[1]
               /\ e.status = "resolved"
               /\ e.resolvedBy = currentContext.userId
               /\ e.conversationId = last'.conv
               /\ byId(conversations', e.conversationId).status = "in_progress"
               /\ Len(escalations') = Len(escalations) ]_vars

\* an escalation was resolved right after its conversation was closed or
\* resolved by updateConversation: the conversation is in_progress
C14_Witness ==
    /\ last.op = "resolveEscalation"
    /\ last.outcome = "ok"
    /\ byId(conversations, last.conv).status = "in_progress"
    /\ Len(auditLogs) >= 3
    /\ auditLogs[2].actionType = "conversation_created"
    /\ auditLogs[2].conversationId = last.conv
    /\ auditLogs[3].actionType = "conversation_escalated"

----------------------------------------------------------------------------
(* TransferSpec: conversations are assigned and transferred, to agents with
   room, to agents without, and to an id that no agent has, under the
   session of each role and with a subscriber listening or not. *)

TransferNext ==
    \/ \E cb \in Callbacks : Continued(subscribeToSync(cb))
    \/ \E email \in SendEmails : Called(MaxTransferCalls, login(email, "demo123"))
    \/ \E c \in ConversationArgs, a \in AgentArgs :
            Called(MaxTransferCalls, assignConversation(c, a))
    \/ \E c \in ConversationArgs, a \in AgentArgs :
            Called(MaxTransferCalls, transferConversation(c, a))

TransferSpec == Init /\ [][TransferNext]_vars

\* C15: transferConversation on an existing conversation, under a session
\* permitted conversation:assign, succeeds whatever the load of the new
\* agent: the conversation is assigned to the new agent, one
\* conversation_transferred entry with the old and the new agent id is put
\* at the head of the audit log and one notification for the new agent at
\* the head of the notifications.
C15_TransferUnconditional ==
    [][ (/\ Ran("transferConversation")
         /\ hasContext
         /\ Holds(currentContext.userRole, <<"conversation", "assign">>)
         /\ \E c \in Range(conversations) : c.id = last'.conv)
        => LET old == byId(conversations, last'.conv)
               new == byId(conversations', last'.conv)
           IN  /\ last'.outcome = "ok"
               /\ new.assignedAgentId = last'.who
               /\ new.status = "assigned"
               /\ Len(auditLogs') = Len(auditLogs) + 1
               /\ SubSeq(auditLogs', 2, Len(auditLogs')) = auditLogs
               /\ auditLogs'[1].actionType = "conversation_transferred"
               /\ auditLogs'[1].conversationId = last'.conv
               /\ auditLogs'[1].metadata =
                     [fromAgentId |-> old.assignedAgentId,
                      toAgentId |-> last'.who]
               /\ Len(notifications') = Len(notifications) + 1
               /\ SubSeq(notifications', 2, Len(notifications')) = notifications
               /\ notifications'[1].userId = last'.who ]_vars

\* a conversation was taken from one agent and transferred to an agent who
\* then holds more open conversations than maxChats
C15_Witness ==
    /\ last.op = "transferConversation"
    /\ last.outcome = "ok"
    /\ \E a \in Range(agents) : a.id = last.who /\ openLoad(a.id) > a.maxChats
    /\ auditLogs[1].metadata.fromAgentId \in AgentIds \ {last.who}

\* the user an escalation of this conversation is announced to when no
\* assignee is given: the first branch manager of its branch, or admin-1
announcedTo(c) ==
    LET managers == { i \in DOMAIN users :
                        /\ users[i].role = "branch_manager"
                        /\ users[i].branchId = c.branchId }
    IN  IF managers = {} THEN "admin-1"
        ELSE users[CHOOSE i \in managers : \A j \in managers : i <= j].id

----------------------------------------------------------------------------
(* Reports *)

\* the moves of a report's status: draft to submitted, submitted to
\* approved or rejected
ReportMoves ==
    { <<"draft", "submitted">>, <<"submitted", "approved">>,
      <<"submitted", "rejected">> }

\* C17: the status of a report changes only from draft to submitted, by
\* submitReport, and from submitted to approved or rejected, by reviewReport.
C17_ReportLifecycle ==
    [][ \A r \in Range(reports) :
          LET after == byId(reports', r.id).status
          IN  after # r.status
              => /\ <<r.status, after>> \in ReportMoves
                 /\ r.status = "draft" => last'.op = "submitReport"
                 /\ r.status = "submitted" => last'.op = "reviewReport" ]_vars

\* C18: reviewReport succeeds only under the session of an admin.
C18_ReviewByAdminOnly ==
    [][ (Ran("reviewReport") /\ last'.outcome = "ok")
        => currentContext.userRole = "admin" ]_vars

----------------------------------------------------------------------------
(* Failed calls *)

BusinessErrors ==
    { "AGENT_NOT_FOUND", "CONVERSATION_NOT_FOUND", "TASK_NOT_FOUND",
      "REPORT_NOT_FOUND", "ESCALATION_NOT_FOUND", "AGENT_AT_CAPACITY" }

\* C19: a call that returns a lookup or business error leaves every store,
\* the audit log, the notifications and the session context as they were,
\* schedules nothing and invokes no subscriber.
C19_ErrorsChangeNothing ==
    [][ (last'.outcome = "error" /\ last'.code \in BusinessErrors)
        => /\ stores' = stores
           /\ currentContext' = currentContext
           /\ syncSubscribers' = syncSubscribers
           /\ timers' = timers
           /\ syncLog' = << >> ]_vars

\* with a subscriber listening and one change audited, a call on an id that
\* names nothing came back with its error
C19_Witness ==
    /\ last.outcome = "error"
    /\ last.code \in BusinessErrors \ {"AGENT_AT_CAPACITY"}
    /\ syncSubscribers # << >>
    /\ Len(auditLogs) = 1

----------------------------------------------------------------------------
(* AuditSpec: the audit log at its cap.  The service has audited all but
   one of the entries the log can hold; status changes by two users add
   entries and getAuditLogs reads the log with every filter. *)

\* getAuditLogs(filters): a filter that is not given is NoId, Undefined or
\* a limit of 0
getAuditLogs(conversationId, userId, actionType, limit) ==
    LET byConversation ==
            IF conversationId # NoId
            THEN SelectSeq(auditLogs, LAMBDA l : l.conversationId = conversationId)
            ELSE auditLogs
        byUser ==
            IF userId # Undefined
            THEN SelectSeq(byConversation, LAMBDA l : l.performedBy = userId)
            ELSE byConversation
        byAction ==
            IF actionType # Undefined
            THEN SelectSeq(byUser, LAMBDA l : l.actionType = actionType)
            ELSE byUser
        sorted == sortByPerformedAt(byAction)
        logs == IF limit # 0 THEN slice(sorted, 0, limit) ELSE sorted
    IN  /\ last' = [Response("getAuditLogs", "ok", "", conversationId, userId,
                             << >>)
                       EXCEPT !.arg = actionType, !.meta.limit = limit,
                              !.logs = logs]
        /\ syncLog' = << >>
        /\ UNCHANGED <<stores, syncSubscribers, currentContext, inflight,
                       issued, timers, clock>>

\* the entries audited before: messages sent and conversations assigned,
\* by the admin and by an agent, the oldest one a conversation_created
Audited(i) ==
    [actionType |-> IF i = AuditCap - 1 THEN "conversation_created"
                    ELSE IF i % 3 = 0 THEN "conversation_assigned"
                    ELSE "message_sent",
     conversationId |-> 1 + (i % 2),
     performedBy |-> IF i % 5 = 0 THEN "agent-1" ELSE "admin-1",
     performedAt |-> 0,
     metadata |-> NoMetadata]

AuditInit ==
    /\ users = SeedUsers
    /\ agents = SeedAgents
    /\ \E s1 \in {s \in SeedStates : s.status \in {"new", "closed"}},
          s2 \in SeedStates2 :
          conversations = << SeedConversation(2, "b2", s2, 2),
                             SeedConversation(1, "b1", s1, 1) >>
    /\ tasks = SeedTasks
    /\ reports = SeedReports
    /\ notifications = SeedNotifications
    /\ escalations = << >>
    /\ auditLogs = [i \in 1..(AuditCap - 1) |-> Audited(i)]
    /\ syncSubscribers = << >>
    /\ currentContext = [userId |-> "admin-1", userRole |-> "admin",
                         branchId |-> Undefined]
    /\ inflight = {}
    /\ issued = 0
    /\ timers = {}
    /\ clock = 3
    /\ last = Ok("constructor", NoId, Undefined)
    /\ syncLog = << >>
    /\ calls = 0
    /\ pending = {}
    /\ held = NoHeld

\* the filters of the reads: none, each one alone, all three, and a limit
AuditFilters ==
    { <<NoId, Undefined, Undefined, 0>>,
      <<1, Undefined, Undefined, 0>>,
      <<NoId, "agent-1", Undefined, 0>>,
      <<NoId, Undefined, "conversation_created", 0>>,
      <<1, "agent-1", "conversation_created", 0>>,
      <<NoId, Undefined, "conversation_created", 1>> }

AuditNext ==
    \/ \E email \in SendEmails : Called(MaxAuditCalls, login(email, "demo123"))
    \/ \E u \in {[status |-> "closed"], [status |-> "new"]} :
            Called(MaxAuditCalls, updateConversation(1, u))
    \/ \E f \in AuditFilters :
            /\ last.op # "getAuditLogs"
            /\ Continued(getAuditLogs(f[1], f[2], f[3], f[4]))

AuditSpec == AuditInit /\ [][AuditNext]_vars

\* the entry passes the filters of a getAuditLogs call
Passes(l, conversationId, userId, actionType) ==
    /\ conversationId # NoId => l.conversationId = conversationId
    /\ userId # Undefined => l.performedBy = userId
    /\ actionType # Undefined => l.actionType = actionType

\* C20: the audit log never holds more than its cap of entries and is
\* ordered newest first; an entry recorded when the log is full drops the
\* oldest entry and no other; getAuditLogs returns the retained entries
\* that pass all the filters given, newest first (all of them when no
\* filter is given), cut to the first `limit` when a limit is given.
C20_AuditLogCapped ==
    /\ [](/\ Len(auditLogs) <= AuditCap
          /\ \A i \in 1..(Len(auditLogs) - 1) :
                auditLogs[i].performedAt >= auditLogs[i + 1].performedAt)
    /\ [][ /\ auditLogs' # auditLogs
              => /\ auditLogs'[1].performedBy = currentContext.userId
                 /\ Tail(auditLogs') =
                       (IF Len(auditLogs) = AuditCap
                        THEN SubSeq(auditLogs, 1, AuditCap - 1)
                        ELSE auditLogs)
           /\ Ran("getAuditLogs")
              => LET passing ==
                        SelectSeq(auditLogs,
                           LAMBDA l : Passes(l, last'.conv, last'.who, last'.arg))
                     limit == last'.meta.limit
                 IN  /\ last'.outcome = "ok"
                     /\ limit = 0 => last'.logs = passing
                     /\ limit # 0 =>
                           last'.logs = SubSeq(passing, 1, Min(limit, Len(passing)))
                     /\ auditLogs' = auditLogs ]_vars

\* the log is full, the conversation_created entry that was its oldest is
\* gone, and a read by action type returned the one entry of that type
\* recorded since
C20_Witness ==
    /\ last.op = "getAuditLogs"
    /\ last.arg = "conversation_created"
    /\ last.meta.limit = 0
    /\ Len(auditLogs) = AuditCap
    /\ auditLogs[AuditCap].actionType # "conversation_created"
    /\ Len(last.logs) = 2
    /\ last.logs[1].performedBy = "agent-1"

----------------------------------------------------------------------------
(* AssignSpec: callers assign conversations without awaiting one another, so
   several assignConversation calls wait in simulateLatency at once and
   their bodies run in any order. *)

AssignNext ==
    \/ \E c \in {1, 2}, a \in AgentIds :
            Issued(MaxAssignCalls, "assignConversation", c, a)
    \/ \E call \in pending :
            Resumed(call, assignConversation(call.conversationId, call.agentId))

AssignSpec == Init /\ [][AssignNext]_vars

\* the conversations of arr the agent holds that are neither resolved nor
\* closed
loadIn(arr, agentId) ==
    Cardinality({ i \in DOMAIN arr :
                    /\ arr[i].assignedAgentId = agentId
                    /\ arr[i].status \notin {"resolved", "closed"} })

\* C21: with assignConversation calls in flight at the same time, no agent
\* ever holds more open conversations than maxChats; the body of each call
\* checks the workload as it is when the body runs and assigns in the same
\* step: it fails with AGENT_AT_CAPACITY and changes nothing when no slot is
\* free, whatever the workload was when the call was made, and otherwise
\* succeeds.
C21_AssignAtomic ==
    /\ [](\A i \in DOMAIN agents :
              loadIn(conversations, agents[i].id) <= agents[i].maxChats)
    /\ [][ Ran("assignConversation")
           => LET agent == byId(agents, last'.who)
              IN  IF loadIn(conversations, agent.id) >= agent.maxChats
                  THEN /\ last'.outcome = "error"
                       /\ last'.code = "AGENT_AT_CAPACITY"
                       /\ stores' = stores
                  ELSE /\ last'.outcome = "ok"
                       /\ byId(conversations', last'.conv).assignedAgentId
                             = agent.id
                       /\ loadIn(conversations', agent.id) <= agent.maxChats
        ]_vars

\* agent-1 had one free slot when two calls were made for two conversations;
\* the body of one has run and filled the slot, and the other call, for a
\* conversation that is still unassigned, is still waiting
C21_Witness ==
    /\ last.op = "assignConversation"
    /\ last.outcome = "ok"
    /\ last.who = "agent-1"
    /\ loadIn(conversations, "agent-1") = byId(agents, "agent-1").maxChats
    /\ \E call \in pending :
          /\ call.agentId = "agent-1"
          /\ call.conversationId # last.conv
          /\ call.load = 0
          /\ byId(conversations, call.conversationId).assignedAgentId = Undefined

----------------------------------------------------------------------------
(* Properties of the stored records under Spec *)

\* C22: no conversation has assignedAgentId set while its status is new.
C22_AssignedNeverNew ==
    \A c \in Range(conversations) :
        c.assignedAgentId # Undefined => c.status # "new"

\* C23: a task has completedAt set if and only if its status is completed.
C23_CompletedAtIffCompleted ==
    \A t \in Range(tasks) : t.completedAt <=> t.status = "completed"

\* C24: a report has reviewedBy set only while its status is approved or
\* rejected, and the field is written only by reviewReport, in the step that
\* makes the status approved or rejected.
C24_ReviewedOnlyWhenDecided ==
    /\ [](\A r \in Range(reports) :
              r.reviewedBy # Undefined => r.status \in {"approved", "rejected"})
    /\ [][ \A i \in DOMAIN reports' :
              (\A j \in DOMAIN reports :
                  reports[j].id = reports'[i].id
                  => reports[j].reviewedBy # reports'[i].reviewedBy)
              /\ reports'[i].reviewedBy # Undefined
              => /\ Ran("reviewReport")
                 /\ reports'[i].status \in {"approved", "rejected"} ]_vars

----------------------------------------------------------------------------
(* HeldSpec: a caller keeps the Conversation object a call handed it.  The
   call returns the object that is in this.conversations, not a copy of it.
   A method that assigns to a field of this.conversations[convIndex], or
   pushes onto its messages, writes to that object, and the caller's
   reference sees the write.  A method that installs { ...old, ...changes }
   leaves the object as it is, but the copy is shallow: the installed record
   and the old object share one messages array, unless the changes carry a
   messages array of their own, which no call of HeldSpec does. *)

\* return { success: true, data: conversation }, the stored object
HandingOps == {"getConversationById", "assignConversation"}

\* the methods that write to the stored object
InPlaceOps ==
    {"escalateConversation", "resolveEscalation", "sendMessage",
     "customerResponse"}

\* the object the caller holds, after the handler ran
handed ==
    LET stored == byId(conversations, held.id)
        after == byId(conversations', held.id)
    IN  IF last'.outcome = "ok" /\ last'.op \in HandingOps
        THEN [id |-> last'.conv, value |-> byId(conversations', last'.conv),
              live |-> TRUE, messagesLive |-> TRUE]
        ELSE IF held.id = NoId THEN held
        ELSE IF stored = after THEN held
        ELSE IF last'.op \in InPlaceOps
        THEN IF held.live THEN [held EXCEPT !.value = after]
             ELSE IF held.messagesLive
             THEN [held EXCEPT !.value.messages = after.messages]
             ELSE held
        ELSE [held EXCEPT !.live = FALSE]

\* the caller makes one more call, awaits it, and keeps what it was handed
Handed(bound, handler) ==
    /\ calls < bound
    /\ calls' = calls + 1
    /\ inflight = {}
    /\ handler
    /\ held' = handed
    /\ UNCHANGED pending

\* the body of a call made earlier runs, or a timer fires
HandedOn(handler) ==
    /\ handler
    /\ held' = handed
    /\ UNCHANGED <<calls, pending>>

HeldNext ==
    \/ Handed(MaxHeldCalls, getConversationById(1))
    \/ \E a \in AgentIds : Handed(MaxHeldCalls, assignConversation(1, a))
    \/ \E u \in {[status |-> "closed"], [notes |-> "edited"]} :
            Handed(MaxHeldCalls, updateConversation(1, u))
    \/ Handed(MaxHeldCalls, escalateConversation(1, "level1", Undefined))
    \/ \E e \in EscalationArgs : Handed(MaxHeldCalls, resolveEscalation(e))
    \/ \E m \in Contents : Handed(MaxHeldCalls, callSendMessage(1, m))
    \/ \E call \in inflight : HandedOn(sendMessage(call))
    \/ \E timer \in timers, r \in DrawnResponses :
            HandedOn(customerResponse(timer, r))

HeldSpec == Init /\ [][HeldNext]_vars

\* C25: a Conversation object handed to a caller keeps the field values it
\* had when it was returned, whatever the facade and the delayed customer
\* reply do afterwards.
C25_HandedObjectKept ==
    [][ (/\ held.id # NoId
         /\ ~(last'.outcome = "ok" /\ last'.op \in HandingOps))
        => held'.value = held.value ]_vars

----------------------------------------------------------------------------
(* Properties of the session under Spec *)

\* C26: on a freshly constructed service no session exists, and a call that
\* needs a session, made before any login, fails with the no-session
\* condition and leaves no audit entry.
C26_NoSessionBeforeLogin ==
    /\ [](last.op = "constructor" => ~hasContext)
    /\ [][ \A op \in SessionOps :
              (last.op = "constructor" /\ Ran(op))
              => /\ last'.outcome = "throw"
                 /\ last'.code = "No authenticated context"
                 /\ auditLogs' = auditLogs ]_vars

----------------------------------------------------------------------------
(* SessionSpec: one caller makes calls under the session it sees and does
   not await them, while another logs in and out.  The body of a call reads
   this.currentContext when it runs, after its latency delay. *)

SessionNext ==
    \/ \E email \in SendEmails :
            Overlapped(MaxSessionCalls, login(email, "demo123"))
    \/ Overlapped(MaxSessionCalls, logout)
    \/ \E a \in AgentIds :
            Issued(MaxSessionCalls, "assignConversation", 1, a)
    \/ Issued(MaxSessionCalls, "getConversations", NoId, Undefined)
    \/ \E call \in pending :
            /\ call.op = "assignConversation"
            /\ Resumed(call, assignConversation(call.conversationId,
                                                call.agentId))
    \/ \E call \in pending :
            /\ call.op = "getConversations"
            /\ Resumed(call, getConversations(Undefined, Undefined, Undefined,
                                              1, DefaultLimit))

SessionSpec == Init /\ [][SessionNext]_vars

\* the (resource, action) pair the method of a waiting call asks for
GateOf(call) ==
    IF call.op = "getConversations" THEN <<"conversation", "read">>
    ELSE Gate[call.op]

\* the conversation is inside the scope of the role of session ctx
inScopeOf(ctx, c) ==
    \/ ctx.userRole = "admin"
    \/ ctx.userRole = "branch_manager" /\ c.branchId = ctx.branchId
    \/ ctx.userRole = "agent" /\ c.assignedAgentId = ctx.userId

\* C27: a call is permission-checked, scoped and audited against the session
\* that was current when the call was made, whatever login or logout
\* completes while the call waits in its latency delay.
C27_SessionOfTheCall ==
    [][ \A call \in pending \ pending' :
          LET ctx == call.context
              denied == IF ctx = NoContext THEN TRUE
                        ELSE ~Holds(ctx.userRole, GateOf(call))
          IN  /\ (last'.outcome = "throw") <=> denied
              /\ auditLogs' # auditLogs
                 => auditLogs'[1].performedBy = ctx.userId
              /\ (call.op = "getConversations" /\ last'.outcome = "ok")
                 => \A k \in DOMAIN last'.items :
                       inScopeOf(ctx, byId(conversations, last'.items[k]))
      ]_vars

----------------------------------------------------------------------------
(* Properties of the reply delivery under SendSpec *)

\* C28: a delivery of the customer reply is all or nothing: either it
\* appends the reply, adds one to unreadCount, sets lastMessage, records one
\* message_received audit entry and notifies the subscribers, or it changes
\* no conversation, records nothing and notifies nobody.
C28_DeliveryAllOrNothing ==
    [][ last'.op = "customerResponse"
        => \/ /\ conversations' = conversations
              /\ auditLogs' = auditLogs
              /\ syncLog' = << >>
           \/ LET c == byId(conversations, last'.conv)
                  d == byId(conversations', last'.conv)
              IN  /\ OneMore(d.messages, c.messages, "customer")
                  /\ d.unreadCount = c.unreadCount + 1
                  /\ d.lastMessage = d.messages[Len(d.messages)].content
                  /\ Len(auditLogs') = Len(auditLogs) + 1
                  /\ auditLogs'[1].actionType = "message_received"
                  /\ Tail(auditLogs') = auditLogs
                  /\ syncLog' = syncSubscribers ]_vars

----------------------------------------------------------------------------
(* Properties of the references between records under TransferSpec *)

\* an agent with this id is stored
isAgent(id) == \E a \in Range(agents) : a.id = id

\* C29: the assignedAgentId of every conversation, when set, is the id of a
\* stored agent; every notification created by assignConversation and
\* transferConversation is addressed to a stored agent; and a transfer to an
\* id that no agent has is rejected and leaves the conversations alone.
C29_AssigneesExist ==
    /\ [](\A c \in Range(conversations) :
              c.assignedAgentId # Undefined => isAgent(c.assignedAgentId))
    /\ [](\A n \in Range(notifications) :
              n.id > Len(SeedNotifications) => isAgent(n.userId))
    /\ [][ (Ran("transferConversation") /\ ~isAgent(last'.who))
           => /\ last'.outcome = "error"
              /\ conversations' = conversations ]_vars

----------------------------------------------------------------------------
(* Properties of the notifications under Spec *)

\* C30: the isRead flag of a notification changes only from false to true,
\* only in a mark-read call, and only under the session of the user the
\* notification is addressed to.
C30_ReadByOwnerOnly ==
    [][ \A n \in Range(notifications) :
          LET m == byId(notifications', n.id)
          IN  m.isRead # n.isRead
              => /\ ~n.isRead
                 /\ m.isRead
                 /\ last'.op \in {"markNotificationAsRead",
                                   "markAllNotificationsAsRead"}
                 /\ hasContext
                 /\ n.userId = currentContext.userId ]_vars

====
